---- MODULE Spec2Model ----
(***************************************************************************)
(* Model of ddtrace_graphql: the traced invocation wrapper                 *)
(* (base.py: traced_graphql_wrapped, _process_result) and the helpers of   *)
(* utils.py it calls (get_query_string, resolve_query_res, is_server_error,*)
(* original_error and the format_errors helpers).                          *)
(*                                                                         *)
(* Under Spec one behaviour is one call of traced_graphql_wrapped.  The     *)
(* inputs of the call (args, kwargs, span_callback, ignore_exceptions, the *)
(* tracers, and what the underlying function does when it is called) are   *)
(* fixed by Init; the actions are the steps of the wrapper in source       *)
(* order.  SpecQuery and SpecSpanKwargs are the same call with the query   *)
(* argument, and span_kwargs and the environment, varied instead.          *)
(* SpecPatch is patch.py: sequences of patch() and unpatch() on the entry  *)
(* points of the graphql module.  SpecResource is resolve_query_res on     *)
(* every short text.                                                       *)
(***************************************************************************)
EXTENDS Integers, Sequences, FiniteSets, TLC

\* ---------------------------------------------------------------- bounds
\* longest errors sequence of a result
MaxErrors == 2
\* calls of patch() and unpatch() in one run
MaxOps == 4
\* longest query text given to resolve_query_res on its own
MaxLen == 4

\* ---------------------------------------------------------- Python values
NONE == "None"
ABSENT == "absent"

\* exception classes: Parent is the base class (isinstance follows it)
Parent(cls) ==
    CASE cls = "Exception" -> "BaseException"
      [] cls \in {"GraphQLError", "ValueError", "KeyError"} -> "Exception"
      [] OTHER -> "object"

\* isinstance(obj, types) for an object of class cls and a tuple of classes
IsInstance(cls, types) ==
    \/ cls \in types
    \/ Parent(cls) \in types
    \/ Parent(Parent(cls)) \in types

\* An entry of result.errors: cls is the class of the entry itself, orig is
\* its original_error attribute (ABSENT: the entry has no such attribute,
\* NONE: the attribute is None, else the class of the wrapped exception).
ValidationError == [cls |-> "GraphQLError", orig |-> NONE]
WrappedValueError == [cls |-> "GraphQLError", orig |-> "ValueError"]
WrappedKeyError == [cls |-> "GraphQLError", orig |-> "KeyError"]
RawValueError == [cls |-> "ValueError", orig |-> ABSENT]
StrEntry == [cls |-> "str", orig |-> ABSENT]

ErrorEntries ==
    {ValidationError, WrappedValueError, WrappedKeyError, RawValueError, StrEntry}

ErrorLists == UNION {[1..n -> ErrorEntries] : n \in 0..MaxErrors}

\* A value the underlying function can hand back.  kind "None" is Python's
\* None, "object" any other object with the attributes errors / data /
\* invalid present or not: ek says whether .errors is missing, None or a
\* list (items), data and invalid likewise.
NoneValue ==
    [kind |-> "None", ek |-> ABSENT, items |-> <<>>, data |-> ABSENT, invalid |-> ABSENT]

Obj(ek, items, data, invalid) ==
    [kind |-> "object", ek |-> ek, items |-> items, data |-> data, invalid |-> invalid]

Objects ==
    {Obj("list", items, d, i) :
        items \in ErrorLists, d \in {ABSENT, NONE, "data"},
        i \in {ABSENT, NONE, "True", "False"}}
    \cup
    {Obj(ek, <<>>, d, i) :
        ek \in {ABSENT, NONE}, d \in {ABSENT, NONE, "data"},
        i \in {ABSENT, NONE, "True", "False"}}

Values == {NoneValue} \cup Objects

\* bool(result.errors) once the attribute is known to exist
Truthy(r) == r.ek = "list" /\ Len(r.items) > 0

\* ---------------------------------------- query arguments: str or document
TextQ(t) == [kind |-> "str", body |-> t]
DocQ(t) == [kind |-> "DocumentNode", body |-> t]
NoQuery == [kind |-> "None", body |-> <<>>]

\* ------------------------------------------------------------- utils.py
\* get_request_string: args[1] if len(args) > 1, else
\* kwargs.get('request_string') or kwargs.get('source')
get_request_string(a, kw) ==
    IF Len(a) > 1 THEN a[2]
    ELSE IF "request_string" \in DOMAIN kw
            /\ kw["request_string"].kind # "None"
            /\ ~(kw["request_string"].kind = "str" /\ kw["request_string"].body = <<>>)
         THEN kw["request_string"]
         ELSE IF "source" \in DOMAIN kw THEN kw["source"] ELSE NoQuery

\* mutant of get_query_string: a document is not unwound to its source
get_query_string_NoUnwind(a, kw) == get_request_string(a, kw)

\* get_query_string: rs.loc.source.body for a DocumentNode, else rs itself
get_query_string(a, kw) ==
    LET rs == get_request_string(a, kw)
    IN IF rs.kind = "DocumentNode" THEN TextQ(rs.body) ELSE rs

IsSplitChar(c) == c \in {"(", "{"}

\* index of the first '(' or '{' of t, Len(t) + 1 when there is none
RECURSIVE FirstSplit(_, _)
FirstSplit(t, i) ==
    IF i > Len(t) THEN i
    ELSE IF IsSplitChar(t[i]) THEN i ELSE FirstSplit(t, i + 1)

\* the characters str.strip() removes (two of them stand for all)
Whitespace == {" ", "\n"}

RECURSIVE LStrip(_)
LStrip(t) == IF t # <<>> /\ Head(t) \in Whitespace THEN LStrip(Tail(t)) ELSE t

RECURSIVE RStrip(_)
RStrip(t) ==
    IF t # <<>> /\ t[Len(t)] \in Whitespace THEN RStrip(SubSeq(t, 1, Len(t) - 1)) ELSE t

Strip(t) == RStrip(LStrip(t))

\* mutant of resolve_query_res: without the "or query" fallback
resolve_query_res_NoFallback(t) == Strip(SubSeq(t, 1, FirstSplit(t, 1) - 1))

\* resolve_query_res on a str: re.split('[({]', query, 1)[0].strip() or query
resolve_query_res(t) ==
    LET head == Strip(SubSeq(t, 1, FirstSplit(t, 1) - 1))
    IN IF head # <<>> THEN head ELSE t

\* mutant of original_error: the wrapper is never unwrapped
original_error_NoUnwrap(err) == err.cls

\* original_error: err.original_error if the attribute exists, else err;
\* the model keeps the class of what is returned
original_error(err) == IF err.orig # ABSENT THEN err.orig ELSE err.cls

\* the list comprehension of is_server_error
RECURSIVE RelevantErrors(_, _)
RelevantErrors(items, ignore) ==
    IF items = <<>> THEN <<>>
    ELSE LET rest == RelevantErrors(Tail(items), ignore)
         IN IF ~IsInstance(original_error(Head(items)), ignore)
            THEN <<Head(items)>> \o rest ELSE rest

\* mutant of InvalidValue: derived from the errors alone, data is not read
InvalidValue_IgnoresData(r) ==
    IF r.invalid \in {"True", "False"} THEN r.invalid
    ELSE IF Truthy(r) THEN "True" ELSE "False"

\* invalid_value of is_server_error: "True" / "False", or "AttributeError"
\* when result.data has to be read and the attribute is missing
InvalidValue(r) ==
    IF r.invalid \in {"True", "False"} THEN r.invalid
    ELSE IF ~Truthy(r) THEN "False"
    ELSE IF r.data = ABSENT THEN "AttributeError"
    ELSE IF r.data = NONE THEN "True" ELSE "False"

\* mutant of is_server_error: the second disjunct lacks len(errors) == 1
is_server_error_AnyCount(r, ignore) ==
    IF r.ek = ABSENT THEN "AttributeError"
    ELSE LET errors == RelevantErrors(r.items, ignore)
             inv == InvalidValue(r)
         IN IF inv = "AttributeError" THEN "AttributeError"
            ELSE IF \/ (r.ek = "list" /\ errors # <<>> /\ inv = "False")
                    \/ (r.ek = "list" /\ errors # <<>> /\ inv = "True"
                        /\ ~IsInstance(r.items[1].cls, {"GraphQLError"}))
                 THEN "True" ELSE "False"

\* is_server_error: "True" / "False", or the exception it raises
is_server_error(r, ignore) ==
    IF r.ek = ABSENT THEN "AttributeError"
    ELSE LET errors == RelevantErrors(r.items, ignore)
             inv == InvalidValue(r)
         IN IF inv = "AttributeError" THEN "AttributeError"
            ELSE IF \/ (r.ek = "list" /\ errors # <<>> /\ inv = "False")
                    \/ (r.ek = "list" /\ errors # <<>> /\ inv = "True"
                        /\ Len(r.items) = 1
                        /\ ~IsInstance(r.items[1].cls, {"GraphQLError"}))
                 THEN "True" ELSE "False"

\* _err_type: type(original_error(error)).__name__
_err_type(err) == IF original_error(err) = NONE THEN "NoneType" ELSE original_error(err)

RECURSIVE ExceptionsOf(_)
ExceptionsOf(items) ==
    IF items = <<>> THEN <<>>
    ELSE IF IsInstance(Head(items).cls, {"Exception"})
         THEN <<Head(items)>> \o ExceptionsOf(Tail(items))
         ELSE ExceptionsOf(Tail(items))

\* format_errors_type: the one type name, or the list over the exceptions
format_errors_type(items) ==
    IF Len(items) = 1 THEN <<_err_type(items[1])>>
    ELSE [i \in 1..Len(ExceptionsOf(items)) |-> _err_type(ExceptionsOf(items)[i])]

\* format_errors_msg: str(original_error(e)), same selection as the types
format_errors_msg(items) ==
    IF Len(items) = 1 THEN <<original_error(items[1])>>
    ELSE [i \in 1..Len(ExceptionsOf(items)) |-> original_error(ExceptionsOf(items)[i])]

\* format_errors_traceback: one traceback per entry that is an exception
\* ("" for an original_error of None)
format_errors_traceback(items) ==
    [i \in 1..Len(ExceptionsOf(items)) |->
        IF original_error(ExceptionsOf(items)[i]) = NONE THEN ""
        ELSE original_error(ExceptionsOf(items)[i])]

\* format_errors: one formatted entry per error, in order
format_errors(items) == [i \in 1..Len(items) |-> items[i].cls]

\* --------------------------------------------------------------- base.py
TYPE == "graphql"
RES_NAME == "graphql.graphql"
SERVICE == "graphql"
QUERY == "query"
ERRORS == "errors"
INVALID == "invalid"
CLIENT_ERROR == "client_error"
DATA_EMPTY == "data_empty"
ERROR_STACK == "error.stack"
ERROR_MSG == "error.msg"
ERROR_TYPE == "error.type"

ErrorTags == {ERRORS, ERROR_STACK, ERROR_MSG, ERROR_TYPE}

\* a span: tags and metrics are functions from the names set so far
\* and kwargs are the keyword arguments tracer.trace was called with
NoSpan ==
    [opened |-> FALSE, closed |-> FALSE, error |-> 0, tags |-> <<>>, metrics |-> <<>>,
     kwargs |-> <<>>]
NewSpan(kw) == [NoSpan EXCEPT !.opened = TRUE, !.kwargs = kw]

\* the environment variable DDTRACE_GRAPHQL_SERVICE: unset, or set to a value
NoEnv == [set |-> FALSE, value |-> <<>>]
EnvSet(v) == [set |-> TRUE, value |-> v]

\* os.getenv(SERVICE_ENV_VAR, SERVICE)
getenv(env, default) == IF env.set THEN env.value ELSE default

\* mutant of _span_kwargs: the defaults win over the caller's keys
_span_kwargs_DefaultsWin(q, env, skw) ==
    [name |-> <<RES_NAME>>,
     span_type |-> <<TYPE>>,
     service |-> getenv(env, <<SERVICE>>),
     resource |-> resolve_query_res(q.body)] @@ skw

\* lines 69-75: the defaults of the span, updated with span_kwargs; the values
\* are texts, a name being a text of one piece
_span_kwargs(q, env, skw) ==
    skw @@ [name |-> <<RES_NAME>>,
            span_type |-> <<TYPE>>,
            service |-> getenv(env, <<SERVICE>>),
            resource |-> resolve_query_res(q.body)]

set_tag(sp, k, v) == [sp EXCEPT !.tags = (k :> v) @@ sp.tags]
set_metric(sp, k, v) == [sp EXCEPT !.metrics = (k :> v) @@ sp.metrics]
set_error(sp, e) == [sp EXCEPT !.error = e]

\* lines 111-122: the four error tags
SetErrorTags(sp, items) ==
    set_tag(set_tag(set_tag(set_tag(sp,
        ERRORS, format_errors(items)),
        ERROR_STACK, format_errors_traceback(items)),
        ERROR_MSG, format_errors_msg(items)),
        ERROR_TYPE, format_errors_type(items))

\* line 131: int(bool(not span.error and result.errors)); result.errors is
\* read only when span.error is 0, and raises when the attribute is missing
ClientErrorRaises(sp, r) == sp.error = 0 /\ r.ek = ABSENT

ClientErrorMetric(sp, r) == IF sp.error = 0 /\ Truthy(r) THEN 1 ELSE 0

\* line 133: int(getattr(result, 'invalid', 0)); int(None) raises TypeError
InvalidMetricRaises(r) == r.invalid = NONE

InvalidMetric(r) == IF r.invalid = "True" THEN 1 ELSE 0

\* mutant of DataEmptyMetric: the test is inverted (is not None)
DataEmptyMetric_Inverted(r) == IF r.data \in {ABSENT, NONE} THEN 0 ELSE 1

\* line 134: int(getattr(result, 'data', None) is None)
DataEmptyMetric(r) == IF r.data \in {ABSENT, NONE} THEN 1 ELSE 0

\* lines 129-134 on a span whose error flag is settled: the three metrics in
\* source order, stopping at the first statement that raises
SetMetrics(sp, r) ==
    IF ClientErrorRaises(sp, r) THEN [span |-> sp, exc |-> "AttributeError"]
    ELSE LET s1 == set_metric(sp, CLIENT_ERROR, ClientErrorMetric(sp, r))
         IN IF InvalidMetricRaises(r) THEN [span |-> s1, exc |-> "TypeError"]
            ELSE [span |-> set_metric(set_metric(s1,
                               INVALID, InvalidMetric(r)),
                               DATA_EMPTY, DataEmptyMetric(r)),
                  exc |-> NONE]

\* lines 108-136 of _process_result: the span after classification and the
\* exception that escaped it (NONE when it ran to the end)
Classify(r, sp, ignore) ==
    IF r.kind = "None" THEN [span |-> set_error(sp, 1), exc |-> NONE]
    ELSE LET s0 == set_error(sp, 0)
         IN IF r.ek # ABSENT /\ Truthy(r)
            THEN LET s1 == SetErrorTags(s0, r.items)
                     ise == is_server_error(r, ignore)
                 IN IF ise = "AttributeError"
                    THEN [span |-> s1, exc |-> "AttributeError"]
                    ELSE SetMetrics(set_error(s1, IF ise = "True" THEN 1 ELSE 0), r)
            ELSE SetMetrics(s0, r)

\* _process_result: classification, then span_callback(result=, span=) when
\* one was given and classification did not raise (the callback is the
\* caller's function: it is taken to return normally and to leave the span
\* as it is); called is the sequence of
\* callback invocations, each with the result and the span as it was handed
\* over
\* mutant of _process_result: the callback gets the span before classification
_process_result_CallbackFirst(r, sp, ignore, cb) ==
    LET c == Classify(r, sp, ignore)
    IN [span |-> c.span,
        exc |-> c.exc,
        called |-> IF cb # NONE THEN <<[result |-> r, span |-> sp]>> ELSE <<>>]

_process_result(r, sp, ignore, cb) ==
    LET c == Classify(r, sp, ignore)
    IN [span |-> c.span,
        exc |-> c.exc,
        called |-> IF c.exc = NONE /\ cb # NONE
                   THEN <<[result |-> r, span |-> c.span]>> ELSE <<>>]

\* ------------------------------------------------------- the traced call
SchemaArg == [kind |-> "schema", body |-> <<>>]

\* the ways the wrapped function is called: (args, kwargs)
Calls ==
    { [args |-> <<SchemaArg, TextQ(<<"{", "h", "}">>)>>, kwargs |-> <<>>],
      [args |-> <<SchemaArg, DocQ(<<"m", " ", "f", " ", "{", "}">>)>>, kwargs |-> <<>>],
      [args |-> <<SchemaArg>>,
       kwargs |-> ("source" :> TextQ(<<"m", " ", "f", "(", "a", ")", "{", "}">>))],
      [args |-> <<SchemaArg>>, kwargs |-> ("request_string" :> TextQ(<<"{", "h", "}">>))],
      [args |-> <<SchemaArg>>, kwargs |-> <<>>],
      [args |-> <<>>,
       kwargs |-> ("schema" :> SchemaArg) @@ ("source" :> TextQ(<<"{", "h", "}">>))] }

IgnoreSets == {{}, {"ValueError"}, {"ValueError", "KeyError"}, {"Exception"}}

\* what the caller of the wrapper has in hand
Pending == [kind |-> "pending", exc |-> NONE, value |-> NoneValue]
Returned(v) == [kind |-> "return", exc |-> NONE, value |-> v]
Raised(e) == [kind |-> "raise", exc |-> e, value |-> NoneValue]
\* a coroutine object: "inner" is the one the underlying function made,
\* "outer" is trace_async()
Coroutine(which) == [kind |-> "coroutine", exc |-> which, value |-> NoneValue]

\* ------------------------------------------------------------- patch.py
\* the attributes patch() wraps: graphql.graphql, graphql.graphql_sync and
\* graphql.backend.core.execute_and_validate
EntryPoints == {"graphql", "graphql_sync", "execute_and_validate"}

\* no call of patch() or unpatch() made yet
NoCall ==
    [op |-> "none", attempts |-> <<>>, warnings |-> <<>>, raised |-> NONE,
     before |-> [e \in EntryPoints |-> <<>>]]

\* no entry point called yet
NoEntryCall ==
    [entry |-> "none", depth |-> 0, wrappers |-> 0, original |-> 0,
     spans |-> <<>>, callbacks |-> <<>>,
     outcome |-> [kind |-> "pending", exc |-> NONE, value |-> NoneValue]]

VARIABLES
    args,               \* positional arguments of the call
    kwargs,             \* keyword arguments of the call
    span_callback,      \* NONE or "callback"
    ignore_exceptions,  \* tuple of exception classes
    globalEnabled,      \* ddtrace.tracer.enabled
    schemaTracer,       \* the schema's datadog_tracer: ABSENT, "enabled", "disabled"
    pc,                 \* position in traced_graphql_wrapped / trace_async
    tracer,             \* the selected tracer: NONE, "global" or "schema"
    query,              \* the local query
    funcCalls,          \* how often func(*args, **kwargs) was called
    funcArgs,           \* the (args, kwargs) func was called with
    funcOutcome,        \* what that call returned or raised
    inner,              \* the inner coroutine: "none", "pending", "resolved", "failed", "cancelled"
    innerOutcome,       \* what the inner coroutine settled to
    actual_result,      \* the local of trace_async; Pending while unbound
    span,               \* the span of this call
    spansOpened,        \* spans started by tracer.trace
    spansClosed,        \* spans finished
    callbacks,          \* invocations of span_callback
    pendingExc,         \* exception in flight through a finally / with block
    outcome,            \* what the caller got back from the wrapper
    awaited,            \* what the awaiter of the outer coroutine got
    events,             \* the call's events in order
    span_kwargs,        \* span_kwargs of the call: the keys the caller overrides
    service_env,        \* os.environ['DDTRACE_GRAPHQL_SERVICE']
    entry,              \* patch.py: the wrapper layers around each entry point
    has_graphql_sync,   \* hasattr(graphql, 'graphql_sync')
    HAS_BACKEND_CORE,   \* graphql.backend.core could be imported
    unwrapKind,         \* which unwrap the import chain of patch.py found
    history,            \* the patch() / unpatch() calls made so far
    lastCall,           \* what the last patch() / unpatch() call did
    faulted,            \* an unwrap failed on a wrapped entry point
    entryCall,          \* the call of an entry point made since the last patch() / unpatch()
    rq,                 \* resolve_query_res: the argument
    rres,               \* resolve_query_res: the value returned
    rpc                 \* resolve_query_res: "ready" or "returned"

\* the state of one call of traced_graphql_wrapped
callVars ==
    <<pc, tracer, query, funcCalls, funcArgs, funcOutcome, inner, innerOutcome,
      actual_result, span, spansOpened, spansClosed, callbacks, pendingExc, outcome, awaited, events>>

\* the parameters of one call of traced_graphql_wrapped
callInputs ==
    <<args, kwargs, span_callback, ignore_exceptions, globalEnabled, schemaTracer,
      span_kwargs, service_env>>

\* the module state patch() and unpatch() work on
patchVars ==
    <<entry, has_graphql_sync, HAS_BACKEND_CORE, unwrapKind, history, lastCall, faulted,
      entryCall>>

\* the state of one call of resolve_query_res
resVars == <<rq, rres, rpc>>

vars == <<callInputs, callVars, patchVars, resVars>>

\* what a step of traced_graphql_wrapped leaves alone besides its locals
inputs == <<callInputs, patchVars, resVars>>

\* no step of the call taken yet
CallStart ==
    /\ pc = "start"
    /\ tracer = NONE
    /\ query = NoQuery
    /\ funcCalls = 0
    /\ funcArgs = <<>>
    /\ funcOutcome = Pending
    /\ inner = "none"
    /\ innerOutcome = Pending
    /\ actual_result = Pending
    /\ span = NoSpan
    /\ spansOpened = 0
    /\ spansClosed = 0
    /\ callbacks = <<>>
    /\ pendingExc = NONE
    /\ outcome = Pending
    /\ awaited = Pending
    /\ events = <<>>

\* the module as imported: nothing patched, no call of patch() or unpatch()
PatchStart ==
    /\ entry = [e \in EntryPoints |-> <<>>]
    /\ history = <<>>
    /\ lastCall = NoCall
    /\ faulted = FALSE
    /\ entryCall = NoEntryCall

\* resolve_query_res not called
ResStart == rq = <<>> /\ rres = <<>> /\ rpc = "ready"

Init ==
    /\ \E c \in Calls : args = c.args /\ kwargs = c.kwargs
    /\ span_callback \in {NONE, "callback"}
    /\ ignore_exceptions \in IgnoreSets
    /\ globalEnabled \in BOOLEAN
    /\ schemaTracer \in {ABSENT, "enabled", "disabled"}
    /\ span_kwargs = <<>>
    /\ service_env = NoEnv
    /\ CallStart
    /\ PatchStart
    /\ has_graphql_sync = TRUE /\ HAS_BACKEND_CORE = FALSE /\ unwrapKind = "checked"
    /\ ResStart

\* mutant of TracerEnabled: the schema's own tracer is not consulted
TracerEnabled_GlobalOnly == globalEnabled

\* tracer.enabled of the selected tracer
TracerEnabled ==
    IF tracer = "schema" THEN schemaTracer = "enabled" ELSE globalEnabled

\* lines 60-61: schema = args[0]; tracer = getattr(schema, 'datadog_tracer',
\* ddtrace.tracer).  args[0] raises IndexError on an empty tuple.
SelectTracer ==
    /\ pc = "start"
    /\ IF Len(args) = 0
       THEN /\ outcome' = Raised("IndexError")
            /\ pc' = "done"
            /\ UNCHANGED tracer
       ELSE /\ tracer' = IF schemaTracer # ABSENT THEN "schema" ELSE "global"
            /\ pc' = "check_enabled"
            /\ UNCHANGED outcome
    /\ UNCHANGED <<inputs, query, funcCalls, funcArgs, funcOutcome, inner, innerOutcome,
                   actual_result, span, spansOpened, spansClosed, callbacks,
                   pendingExc, awaited, events>>

\* what func(*args, **kwargs) can do: return a value, raise, or return a
\* coroutine
FuncOutcomes ==
    {Returned(v) : v \in Values} \cup {Raised("FuncError"), Coroutine("inner")}

\* lines 64-65: if not tracer.enabled: return func(*args, **kwargs)
Bypass ==
    /\ pc = "check_enabled"
    /\ ~TracerEnabled
    /\ \E o \in FuncOutcomes :
        /\ funcOutcome' = o
        /\ outcome' = o
        /\ inner' = IF o.kind = "coroutine" THEN "pending" ELSE inner
    /\ funcCalls' = funcCalls + 1
    /\ funcArgs' = <<args, kwargs>>
    /\ events' = Append(events, "func")
    /\ pc' = "done"
    /\ UNCHANGED <<inputs, tracer, query, innerOutcome, actual_result, span,
                   spansOpened, spansClosed, callbacks, pendingExc, awaited>>

\* lines 67-75: query = utils.get_query_string(args, kwargs), then the
\* _span_kwargs dict, whose 'resource' is utils.resolve_query_res(query);
\* re.split raises TypeError when query is None
ExtractQuery ==
    /\ pc = "check_enabled"
    /\ TracerEnabled
    /\ query' = get_query_string(args, kwargs)
    /\ IF query'.kind = "None"
       THEN /\ outcome' = Raised("TypeError")
            /\ pc' = "done"
            /\ UNCHANGED events
       ELSE /\ pc' = "call"
            /\ events' = Append(events, "query")
            /\ UNCHANGED outcome
    /\ UNCHANGED <<inputs, tracer, funcCalls, funcArgs, funcOutcome, inner, innerOutcome,
                   actual_result, span, spansOpened, spansClosed, callbacks,
                   pendingExc, awaited>>

\* line 79: result = func(*args, **kwargs); an exception of func leaves the
\* wrapper here.  Line 82 then picks the path.
CallFunc ==
    /\ pc = "call"
    /\ \E o \in FuncOutcomes :
        /\ funcOutcome' = o
        /\ CASE o.kind = "raise" ->
                    /\ outcome' = o /\ pc' = "done" /\ UNCHANGED inner
             [] o.kind = "coroutine" ->
                    /\ pc' = "async_return" /\ inner' = "pending" /\ UNCHANGED outcome
             [] OTHER ->
                    /\ pc' = "sync_open" /\ UNCHANGED <<inner, outcome>>
    /\ funcCalls' = funcCalls + 1
    /\ funcArgs' = <<args, kwargs>>
    /\ events' = Append(events, "func")
    /\ UNCHANGED <<inputs, tracer, query, innerOutcome, actual_result, span,
                   spansOpened, spansClosed, callbacks, pendingExc, awaited>>

\* lines 98-99: with tracer.trace(**_span_kwargs) as span: span.set_tag(QUERY, query)
OpenSpanSync ==
    /\ pc = "sync_open"
    /\ span' = set_tag(NewSpan(_span_kwargs(query, service_env, span_kwargs)), QUERY, query)
    /\ spansOpened' = spansOpened + 1
    /\ events' = Append(events, "span_open")
    /\ pc' = "sync_finally"
    /\ UNCHANGED <<inputs, tracer, query, funcCalls, funcArgs, funcOutcome, inner, innerOutcome,
                   actual_result, spansClosed, callbacks, pendingExc, outcome, awaited>>

\* lines 100-103: try: return result / finally: _process_result(...)
FinallySync ==
    /\ pc = "sync_finally"
    /\ LET p == _process_result(funcOutcome.value, span, ignore_exceptions, span_callback)
       IN /\ span' = p.span
          /\ callbacks' = callbacks \o p.called
          /\ pendingExc' = p.exc
          /\ events' = Append(events, "classified") \o
                       (IF p.called # <<>> THEN <<"callback">> ELSE <<>>)
    /\ pc' = "sync_close"
    /\ UNCHANGED <<inputs, tracer, query, funcCalls, funcArgs, funcOutcome, inner, innerOutcome,
                   actual_result, spansOpened, spansClosed, outcome, awaited>>

\* end of the with block of line 98 (the tracer's span is an external
\* object: leaving the block is modelled as finishing it, nothing more): the
\* span is finished, then the wrapper
\* returns result, or the exception of the finally clause propagates
CloseSpanSync ==
    /\ pc = "sync_close"
    /\ span' = [span EXCEPT !.closed = TRUE]
    /\ spansClosed' = spansClosed + 1
    /\ outcome' = IF pendingExc # NONE THEN Raised(pendingExc)
                  ELSE Returned(funcOutcome.value)
    /\ events' = Append(events, "span_close")
    /\ pc' = "done"
    /\ UNCHANGED <<inputs, tracer, query, funcCalls, funcArgs, funcOutcome, inner, innerOutcome,
                   actual_result, spansOpened, callbacks, pendingExc, awaited>>

\* line 95: return trace_async(); nothing of trace_async has run yet
ReturnCoroutine ==
    /\ pc = "async_return"
    /\ outcome' = Coroutine("outer")
    /\ pc' = "outer_created"
    /\ UNCHANGED <<inputs, tracer, query, funcCalls, funcArgs, funcOutcome, inner, innerOutcome,
                   actual_result, span, spansOpened, spansClosed, callbacks,
                   pendingExc, awaited, events>>

\* the caller awaits the outer coroutine; lines 84-87 run up to `await result`
StartOuter ==
    /\ pc = "outer_created"
    /\ span' = set_tag(NewSpan(_span_kwargs(query, service_env, span_kwargs)), QUERY, query)
    /\ spansOpened' = spansOpened + 1
    /\ events' = Append(events, "span_open")
    /\ pc' = "awaiting"
    /\ UNCHANGED <<inputs, tracer, query, funcCalls, funcArgs, funcOutcome, inner, innerOutcome,
                   actual_result, spansClosed, callbacks, pendingExc, outcome, awaited>>

\* line 87: the inner coroutine resolves; actual_result is bound
InnerResolve ==
    /\ pc = "awaiting"
    /\ inner = "pending"
    /\ \E v \in Values :
        /\ innerOutcome' = Returned(v)
        /\ actual_result' = Returned(v)
    /\ inner' = "resolved"
    /\ events' = Append(events, "inner_settled")
    /\ pc' = "async_finally"
    /\ UNCHANGED <<inputs, tracer, query, funcCalls, funcArgs, funcOutcome, span, spansOpened,
                   spansClosed, callbacks, pendingExc, outcome, awaited>>

\* line 87: the inner coroutine raises; actual_result stays unbound
InnerFail ==
    /\ pc = "awaiting"
    /\ inner = "pending"
    /\ innerOutcome' = Raised("FuncError")
    /\ pendingExc' = "FuncError"
    /\ inner' = "failed"
    /\ events' = Append(events, "inner_settled")
    /\ pc' = "async_finally"
    /\ UNCHANGED <<inputs, tracer, query, funcCalls, funcArgs, funcOutcome, actual_result, span,
                   spansOpened, spansClosed, callbacks, outcome, awaited>>

\* mutant of CancelAwait: the inner coroutine is left pending
CancelAwait_NotDelivered(inn) == [inner |-> inn, exc |-> "CancelledError"]

\* line 87, `await result` under cancellation: the outer coroutine awaits the
\* inner one directly, so the CancelledError thrown into the outer coroutine
\* is thrown into the inner one at its own suspension point and comes back
\* out of the await (an inner coroutine that catches it and returns or
\* raises something else is InnerResolve or InnerFail)
CancelAwait(inn) == [inner |-> "cancelled", exc |-> "CancelledError"]

\* the outer coroutine is cancelled by its awaiter while it is suspended at
\* line 87; actual_result stays unbound
Cancel ==
    /\ pc = "awaiting"
    /\ inner = "pending"
    /\ LET c == CancelAwait(inner)
       IN /\ inner' = c.inner
          /\ innerOutcome' = IF c.inner = "cancelled" THEN Raised(c.exc) ELSE innerOutcome
          /\ pendingExc' = c.exc
    /\ events' = Append(events, "cancel")
    /\ pc' = "async_finally"
    /\ UNCHANGED <<inputs, tracer, query, funcCalls, funcArgs, funcOutcome, actual_result, span,
                   spansOpened, spansClosed, callbacks, outcome, awaited>>

\* mutant of AsyncFailure: the else branch of the finally clause is missing
AsyncFailure_Missing(sp) == sp

\* line 93: span.error = 1 when the inner coroutine did not resolve
AsyncFailure(sp) == set_error(sp, 1)

\* lines 89-93: finally: _process_result(...) if 'actual_result' in locals()
\* else span.error = 1
FinallyAsync ==
    /\ pc = "async_finally"
    /\ IF actual_result.kind = "return"
       THEN LET p == _process_result(actual_result.value, span, ignore_exceptions,
                                     span_callback)
            IN /\ span' = p.span
               /\ callbacks' = callbacks \o p.called
               /\ pendingExc' = p.exc
               /\ events' = Append(events, "classified") \o
                            (IF p.called # <<>> THEN <<"callback">> ELSE <<>>)
       ELSE /\ span' = AsyncFailure(span)
            /\ UNCHANGED <<callbacks, pendingExc, events>>
    /\ pc' = "async_close"
    /\ UNCHANGED <<inputs, tracer, query, funcCalls, funcArgs, funcOutcome, inner, innerOutcome,
                   actual_result, spansOpened, spansClosed, outcome, awaited>>

\* end of the with block of line 84: the span is finished and the outer
\* coroutine settles
CloseSpanAsync ==
    /\ pc = "async_close"
    /\ span' = [span EXCEPT !.closed = TRUE]
    /\ spansClosed' = spansClosed + 1
    /\ awaited' = IF pendingExc # NONE THEN Raised(pendingExc)
                  ELSE Returned(actual_result.value)
    /\ events' = Append(events, "span_close")
    /\ pc' = "done"
    /\ UNCHANGED <<inputs, tracer, query, funcCalls, funcArgs, funcOutcome, inner, innerOutcome,
                   actual_result, spansOpened, callbacks, pendingExc, outcome>>

Next ==
    \/ SelectTracer
    \/ Bypass
    \/ ExtractQuery
    \/ CallFunc
    \/ OpenSpanSync
    \/ FinallySync
    \/ CloseSpanSync
    \/ ReturnCoroutine
    \/ StartOuter
    \/ InnerResolve
    \/ InnerFail
    \/ Cancel
    \/ FinallyAsync
    \/ CloseSpanAsync

Spec == Init /\ [][Next]_vars

\* --------------------------------- the call with every way to pass a query
\* the query of each position has a text of its own
PositionalText == <<"{", "p", "}">>
RequestStringText == <<"q", " ", "r", "{", "}">>
SourceText == <<"m", " ", "s", "(", ")">>

\* a keyword argument that is not passed
NotPassed == [kind |-> "absent", body |-> <<>>]

\* the keyword arguments of a call: request_string and source, each passed
\* or not
Keywords(rs, src) ==
    (IF rs = NotPassed THEN <<>> ELSE "request_string" :> rs) @@
    (IF src = NotPassed THEN <<>> ELSE "source" :> src)

\* the second positional argument absent, a str or a document; request_string
\* absent, None, '', a str or a document; source absent, a str or a document
QueryCalls ==
    {[args |-> <<SchemaArg>> \o pos, kwargs |-> Keywords(rs, src)] :
        pos \in {<<>>, <<TextQ(PositionalText)>>, <<DocQ(PositionalText)>>},
        rs \in {NotPassed, NoQuery, TextQ(<<>>), TextQ(RequestStringText),
                DocQ(RequestStringText)},
        src \in {NotPassed, TextQ(SourceText), DocQ(SourceText)}}

InitQuery ==
    /\ \E c \in QueryCalls : args = c.args /\ kwargs = c.kwargs
    /\ span_callback = NONE
    /\ ignore_exceptions = {}
    /\ globalEnabled \in BOOLEAN
    /\ schemaTracer = ABSENT
    /\ span_kwargs = <<>>
    /\ service_env = NoEnv
    /\ CallStart
    /\ PatchStart
    /\ has_graphql_sync = TRUE /\ HAS_BACKEND_CORE = FALSE /\ unwrapKind = "checked"
    /\ ResStart

SpecQuery == InitQuery /\ [][Next]_vars

\* ------------------------------------------ the call with span_kwargs
SpanKeys == {"name", "service", "resource", "span_type"}

\* what the caller puts under each key it overrides
OverrideValue(k) ==
    CASE k = "name" -> <<"custom.name">>
      [] k = "service" -> <<"custom.service">>
      [] k = "resource" -> <<"t", "e", "s", "t">>
      [] k = "span_type" -> <<"web">>

\* span_kwargs: None, or a dict over any of the keys
SpanKwargsChoices == {[k \in K |-> OverrideValue(k)] : K \in SUBSET SpanKeys}

InitSpanKwargs ==
    /\ \E c \in {[args |-> <<SchemaArg, TextQ(<<"{", "h", "}">>)>>, kwargs |-> <<>>],
                 [args |-> <<SchemaArg>>,
                  kwargs |-> ("source" :> TextQ(<<"m", " ", "f", "(", "a", ")", "{", "}">>))]} :
          args = c.args /\ kwargs = c.kwargs
    /\ span_callback = NONE
    /\ ignore_exceptions = {}
    /\ globalEnabled \in BOOLEAN
    /\ schemaTracer = ABSENT
    /\ span_kwargs \in SpanKwargsChoices
    /\ service_env \in {NoEnv, EnvSet(<<"test.test">>)}
    /\ CallStart
    /\ PatchStart
    /\ has_graphql_sync = TRUE /\ HAS_BACKEND_CORE = FALSE /\ unwrapKind = "checked"
    /\ ResStart

SpecSpanKwargs == InitSpanKwargs /\ [][Next]_vars

\* ------------------------------------------------------ patch / unpatch
\* the wrapper of patch(): a closure over the three parameters of patch()
Layer(kw, cb, ign) == [span_kwargs |-> kw, span_callback |-> cb, ignore_exceptions |-> ign]

\* mutant of wrap_function_wrapper: an attribute that is wrapped already is
\* left alone
wrap_function_wrapper_Once(stack, layer) ==
    IF stack # <<>> THEN stack ELSE Append(stack, layer)

\* wrapt.wrap_function_wrapper(module, name, wrapper): the attribute becomes a
\* FunctionWrapper around what it was, whatever that is
wrap_function_wrapper(stack, layer) == Append(stack, layer)

\* mutant of unwrap: the attribute is left as it is
unwrap_Keeps(kind, stack, fails) ==
    [stack |-> stack, exc |-> IF fails THEN "Exception" ELSE NONE]

\* unwrap(module, name) as the import chain of patch.py finds it.  On a
\* wrapped attribute it puts back attribute.__wrapped__.  On a plain function
\* ddtrace.util.unwrap ("checked") does nothing and
\* ddtrace.internal.utils.wrappers.unwrap ("unchecked") raises AttributeError.
\* fails: this call raises instead, as the mock of test_compatibility.py does
unwrap(kind, stack, fails) ==
    IF fails THEN [stack |-> stack, exc |-> "Exception"]
    ELSE IF stack # <<>> THEN [stack |-> SubSeq(stack, 1, Len(stack) - 1), exc |-> NONE]
    ELSE IF kind = "checked" THEN [stack |-> stack, exc |-> NONE]
    ELSE [stack |-> stack, exc |-> "AttributeError"]

\* mutant of TryUnwrap: the try / except around unwrap is missing
TryUnwrap_NoExcept(run, e, kind, fails) ==
    LET u == unwrap(kind, run.entry[e], e \in fails)
    IN [entry |-> [run.entry EXCEPT ![e] = u.stack],
        attempts |-> Append(run.attempts, e),
        warnings |-> run.warnings,
        raised |-> u.exc]

\* one block of unpatch(): try: unwrap(...) except Exception as e:
\* logger.warning(...)
TryUnwrap(run, e, kind, fails) ==
    LET u == unwrap(kind, run.entry[e], e \in fails)
    IN [entry |-> [run.entry EXCEPT ![e] = u.stack],
        attempts |-> Append(run.attempts, e),
        warnings |-> IF u.exc # NONE THEN Append(run.warnings, e) ELSE run.warnings,
        raised |-> NONE]

\* the entry points this installation has
Present(sync, backend) ==
    {"graphql"} \cup (IF sync THEN {"graphql_sync"} ELSE {})
                \cup (IF backend THEN {"execute_and_validate"} ELSE {})

\* the same, in the order patch() and unpatch() go through them
PresentSeq(sync, backend) ==
    <<"graphql">> \o (IF sync THEN <<"graphql_sync">> ELSE <<>>)
                  \o (IF backend THEN <<"execute_and_validate">> ELSE <<>>)

\* the body of unpatch(): the three blocks in order; an exception that
\* leaves a block ends the call
UnpatchRun(ent, kind, sync, backend, fails) ==
    LET r0 == [entry |-> ent, attempts |-> <<>>, warnings |-> <<>>, raised |-> NONE]
        r1 == TryUnwrap(r0, "graphql", kind, fails)
        r2 == IF r1.raised = NONE /\ sync
              THEN TryUnwrap(r1, "graphql_sync", kind, fails) ELSE r1
        r3 == IF r2.raised = NONE /\ backend
              THEN TryUnwrap(r2, "execute_and_validate", kind, fails) ELSE r2
    IN r3

\* patch(span_kwargs, span_callback, ignore_exceptions): every entry point the
\* installation has is wrapped once more
patch ==
    /\ Len(history) < MaxOps
    /\ \E cb \in {NONE, "callback"} :
         entry' = [e \in EntryPoints |->
                     IF e \in Present(has_graphql_sync, HAS_BACKEND_CORE)
                     THEN wrap_function_wrapper(entry[e], Layer(<<>>, cb, {}))
                     ELSE entry[e]]
    /\ history' = Append(history, "patch")
    /\ lastCall' = [NoCall EXCEPT !.op = "patch", !.before = entry]
    /\ entryCall' = NoEntryCall
    /\ UNCHANGED <<callInputs, callVars, resVars, has_graphql_sync, HAS_BACKEND_CORE,
                   unwrapKind, faulted>>

\* unpatch()
unpatch ==
    /\ Len(history) < MaxOps
    /\ \E fails \in SUBSET Present(has_graphql_sync, HAS_BACKEND_CORE) :
         LET r == UnpatchRun(entry, unwrapKind, has_graphql_sync, HAS_BACKEND_CORE, fails)
         IN /\ entry' = r.entry
            /\ lastCall' = [op |-> "unpatch", attempts |-> r.attempts,
                            warnings |-> r.warnings, raised |-> r.raised,
                            before |-> entry]
            /\ faulted' = (faulted \/ fails # {})
    /\ history' = Append(history, "unpatch")
    /\ entryCall' = NoEntryCall
    /\ UNCHANGED <<callInputs, callVars, resVars, has_graphql_sync, HAS_BACKEND_CORE,
                   unwrapKind>>

\* what the original entry point does in a call: it returns a clean result,
\* a result with a resolver error, or None, or it raises
EntryResults ==
    {Returned(Obj(NONE, <<>>, "data", ABSENT)),
     Returned(Obj("list", <<WrappedValueError>>, NONE, ABSENT)),
     Returned(NoneValue),
     Raised("FuncError")}

\* the query of the call of an entry point
EntryQuery == TextQ(<<"{", "h", "}">>)

\* traced_graphql_wrapped on its synchronous path with the tracer enabled, as
\* one layer of a patched entry point runs it: run is the outcome of
\* func(*args, **kwargs) (line 79) with what the layers below did; when func
\* raised the exception goes through, else a span is opened, tagged,
\* classified (with the callback) and finished (lines 98-103)
traced_graphql_wrapped(run, layer, q) ==
    IF run.outcome.kind = "raise"
    THEN [run EXCEPT !.wrappers = @ + 1]
    ELSE LET sp == set_tag(NewSpan(_span_kwargs(q, NoEnv, layer.span_kwargs)), QUERY, q)
             p == _process_result(run.outcome.value, sp, layer.ignore_exceptions,
                                  layer.span_callback)
         IN [run EXCEPT !.wrappers = @ + 1,
                        !.spans = Append(@, [p.span EXCEPT !.closed = TRUE]),
                        !.callbacks = @ \o p.called,
                        !.outcome = IF p.exc # NONE THEN Raised(p.exc) ELSE @]

\* a call of an entry point: the wrapper of the outermost layer gets the
\* attribute it replaced as func, down to the original function
RECURSIVE CallThrough(_, _, _)
CallThrough(stack, res, q) ==
    IF stack = <<>>
    THEN [wrappers |-> 0, original |-> 1, spans |-> <<>>, callbacks |-> <<>>,
          outcome |-> res]
    ELSE traced_graphql_wrapped(CallThrough(SubSeq(stack, 1, Len(stack) - 1), res, q),
                                stack[Len(stack)], q)

\* graphql.graphql_sync(schema, '{ h }') or one of the other entry points is
\* called, with whatever layers it has at this moment
CallEntry ==
    /\ \E e \in Present(has_graphql_sync, HAS_BACKEND_CORE), res \in EntryResults :
         entryCall' = [entry |-> e, depth |-> Len(entry[e])]
                      @@ CallThrough(entry[e], res, EntryQuery)
    /\ UNCHANGED <<callInputs, callVars, resVars, entry, has_graphql_sync, HAS_BACKEND_CORE,
                   unwrapKind, history, lastCall, faulted>>

\* an installation with nothing patched and no call under way
InitPatch ==
    /\ args = <<>> /\ kwargs = <<>>
    /\ span_callback = NONE
    /\ ignore_exceptions = {}
    /\ globalEnabled = TRUE
    /\ schemaTracer = ABSENT
    /\ span_kwargs = <<>>
    /\ service_env = NoEnv
    /\ CallStart
    /\ PatchStart
    /\ has_graphql_sync \in BOOLEAN
    /\ HAS_BACKEND_CORE \in BOOLEAN
    /\ unwrapKind \in {"checked", "unchecked"}
    /\ ResStart

NextPatch == patch \/ unpatch \/ CallEntry

SpecPatch == InitPatch /\ [][NextPatch]_vars


\* ------------------------------------------- resolve_query_res on its own
\* the characters of the query texts: a name character, the two kinds of
\* whitespace and the two characters re.split splits on
Chars == {"a", " ", "\n", "(", "{"}

\* the texts of length n
TextsOfLen(n) == [1..n -> Chars]

Texts == UNION {TextsOfLen(n) : n \in 0..MaxLen}

\* resolve_query_res(query) is called and returns
ResolveQueryRes ==
    /\ rpc = "ready"
    /\ rres' = resolve_query_res(rq)
    /\ rpc' = "returned"
    /\ UNCHANGED <<callInputs, callVars, patchVars, rq>>

InitResource ==
    /\ args = <<>> /\ kwargs = <<>>
    /\ span_callback = NONE
    /\ ignore_exceptions = {}
    /\ globalEnabled = TRUE
    /\ schemaTracer = ABSENT
    /\ span_kwargs = <<>>
    /\ service_env = NoEnv
    /\ CallStart
    /\ PatchStart
    /\ has_graphql_sync = TRUE /\ HAS_BACKEND_CORE = FALSE /\ unwrapKind = "checked"
    /\ rq \in Texts
    /\ rres = <<>>
    /\ rpc = "ready"

NextResource == ResolveQueryRes

SpecResource == InitResource /\ [][NextResource]_vars

\* ================================================================ claims
\* the result handed to _process_result, once there is one
ClassifiedResult ==
    IF funcOutcome.kind = "return" THEN funcOutcome.value ELSE actual_result.value

\* the span of the call is finished and a result went through _process_result
SpanEnded ==
    /\ span.closed
    /\ (funcOutcome.kind = "return" \/ actual_result.kind = "return")

\* an ExecutionResult of the execution engine: an object exposing errors
\* (None or a sequence) and data, and optionally a boolean invalid.  The
\* claims about results are stated over these and over None; objects that
\* lack the attributes are inputs of the model as well (Objects).
IsExecutionResult(r) ==
    /\ r.kind = "object"
    /\ r.ek \in {NONE, "list"}
    /\ r.data \in {NONE, "data"}
    /\ r.invalid \in {ABSENT, "True", "False"}

HasErrors(r) == r.ek = "list" /\ r.items # <<>>

\* the class of the original exception behind an error entry
OrigTypeOf(e) ==
    IF e.orig = ABSENT THEN e.cls ELSE IF e.orig = NONE THEN "NoneType" ELSE e.orig

MetricOf(k) == IF k \in DOMAIN span.metrics THEN span.metrics[k] ELSE -1

\* the decision table of the error flag, given the indices of the errors
\* the ExclusionSet excludes
DecisionTable(r, excluded) ==
    IF r.kind = "None" THEN 1
    ELSE IF ~HasErrors(r) THEN 0
    ELSE LET relevant == {i \in 1..Len(r.items) : i \notin excluded}
             invalid == IF r.invalid \in {"True", "False"} THEN r.invalid = "True"
                        ELSE r.data = NONE
         IN IF /\ relevant # {}
               /\ \/ ~invalid
                  \/ (invalid /\ Len(r.items) = 1 /\ r.items[1].cls # "GraphQLError")
            THEN 1 ELSE 0

ExcludedByMembership(r) ==
    {i \in 1..Len(r.items) : OrigTypeOf(r.items[i]) \in ignore_exceptions}

ExcludedByInstance(r) ==
    {i \in 1..Len(r.items) : IsInstance(OrigTypeOf(r.items[i]), ignore_exceptions)}

\* C1 (as claimed): what the caller of the wrapper gets, returned or raised,
\* is what calling the underlying function directly gives: the function was
\* called once and its return value or exception is the caller's; for a
\* coroutine the awaiter gets what the inner coroutine settled to.
C1_SameAsDirectCall ==
    pc = "done" =>
        /\ funcCalls = 1
        /\ IF funcOutcome.kind = "coroutine" /\ outcome = Coroutine("outer")
           THEN awaited = innerOutcome
           ELSE outcome = funcOutcome

\* C2 (as claimed): the error flag follows the decision table, where an
\* error is relevant when the type of its original exception is not a member
\* of the ExclusionSet.
C2_TableByMembership ==
    (SpanEnded /\ (ClassifiedResult.kind = "None" \/ IsExecutionResult(ClassifiedResult)))
        => span.error = DecisionTable(ClassifiedResult, ExcludedByMembership(ClassifiedResult))

\* C2 (amended): the error flag follows the decision table, where an error
\* is relevant when its original exception is not an instance of a type of
\* the ExclusionSet (an instance of a subclass of a listed type is excluded).
C2_TableByInstance ==
    (SpanEnded /\ (ClassifiedResult.kind = "None" \/ IsExecutionResult(ClassifiedResult)))
        => span.error = DecisionTable(ClassifiedResult, ExcludedByInstance(ClassifiedResult))

\* C2 witness: a finished span where the amended reading decides: a wrapped
\* ValueError under ignore_exceptions = (Exception,) is excluded, flag 0
C2_Witness ==
    /\ SpanEnded
    /\ ClassifiedResult = Obj("list", <<WrappedValueError>>, "data", ABSENT)
    /\ ignore_exceptions = {"Exception"}
    /\ span.error = 0
    /\ MetricOf(CLIENT_ERROR) = 1

\* a resolver exception: not a validation error, wrapped by the engine or not
ResolverErrors == {WrappedValueError, WrappedKeyError, RawValueError}

\* C3 (as claimed, on results of an engine that supplies no invalid flag):
\* one error raised inside a resolver whose original exception the
\* ExclusionSet does not exclude ends with error flag 1 and client_error 0,
\* whether data is null or not.
C3_SingleResolverError ==
    (/\ SpanEnded
     /\ IsExecutionResult(ClassifiedResult)
     /\ ClassifiedResult.invalid = ABSENT
     /\ Len(ClassifiedResult.items) = 1
     /\ ClassifiedResult.items[1] \in ResolverErrors
     /\ ~IsInstance(OrigTypeOf(ClassifiedResult.items[1]), ignore_exceptions))
        => (span.error = 1 /\ MetricOf(CLIENT_ERROR) = 0)

\* C4: when every error's original exception type is a member of the
\* ExclusionSet, the span ends with error flag 0 and client_error 1,
\* whatever data and invalid are.
C4_AllExcluded ==
    (/\ SpanEnded
     /\ IsExecutionResult(ClassifiedResult)
     /\ HasErrors(ClassifiedResult)
     /\ \A i \in 1..Len(ClassifiedResult.items) :
            OrigTypeOf(ClassifiedResult.items[i]) \in ignore_exceptions)
        => (span.error = 0 /\ MetricOf(CLIENT_ERROR) = 1)

\* C4 witness: a wrapped ValueError with ValueError excluded, no data, and
\* the invalid flag derived
C4_Witness ==
    /\ SpanEnded
    /\ ClassifiedResult = Obj("list", <<WrappedValueError>>, NONE, ABSENT)
    /\ "ValueError" \in ignore_exceptions
    /\ MetricOf(CLIENT_ERROR) = 1

\* C5 (as claimed): an invalid query (validation errors only, no data), with
\* or without an explicit invalid attribute, ends with invalid = 1,
\* data_empty = 1 and error flag 0; a result without errors (that the
\* library does not itself report invalid) has invalid = 0.
C5_InvalidQuery ==
    (SpanEnded /\ IsExecutionResult(ClassifiedResult)) =>
        /\ (/\ HasErrors(ClassifiedResult)
            /\ \A i \in 1..Len(ClassifiedResult.items) :
                   ClassifiedResult.items[i] = ValidationError
            /\ ClassifiedResult.data = NONE
            /\ ClassifiedResult.invalid \in {ABSENT, "True"})
               => (/\ MetricOf(INVALID) = 1
                   /\ MetricOf(DATA_EMPTY) = 1
                   /\ span.error = 0)
        /\ (~HasErrors(ClassifiedResult) /\ ClassifiedResult.invalid \in {ABSENT, "False"})
               => MetricOf(INVALID) = 0

\* C6: data present and no errors (None or empty) ends with error flag 0,
\* client_error 0, data_empty 0 and none of the four error tags.
C6_CleanSuccess ==
    (/\ SpanEnded
     /\ IsExecutionResult(ClassifiedResult)
     /\ ClassifiedResult.data = "data"
     /\ ~HasErrors(ClassifiedResult))
        => /\ span.error = 0
           /\ MetricOf(CLIENT_ERROR) = 0
           /\ MetricOf(DATA_EMPTY) = 0
           /\ DOMAIN span.tags \cap ErrorTags = {}

\* C6 witness: a finished span for data with errors = None
C6_Witness ==
    /\ SpanEnded
    /\ ClassifiedResult = Obj(NONE, <<>>, "data", ABSENT)
    /\ MetricOf(DATA_EMPTY) = 0
    /\ QUERY \in DOMAIN span.tags

\* C7 (as claimed): data present together with errors is always a client
\* error: error flag 0 and client_error 1.
C7_PartialIsClientError ==
    (/\ SpanEnded
     /\ IsExecutionResult(ClassifiedResult)
     /\ ClassifiedResult.data = "data"
     /\ HasErrors(ClassifiedResult))
        => (span.error = 0 /\ MetricOf(CLIENT_ERROR) = 1)

\* C7 (amended): with data present and errors, client_error is the
\* complement of the error flag; the call is a client error (0, 1) when the
\* ExclusionSet excludes every error, and a server error (1, 0) when some
\* error is not excluded and the library does not report the result invalid.
C7_PartialFailure ==
    (/\ SpanEnded
     /\ IsExecutionResult(ClassifiedResult)
     /\ ClassifiedResult.data = "data"
     /\ HasErrors(ClassifiedResult))
        => /\ MetricOf(CLIENT_ERROR) = 1 - span.error
           /\ (ExcludedByInstance(ClassifiedResult) = 1..Len(ClassifiedResult.items))
                 => span.error = 0
           /\ (/\ ExcludedByInstance(ClassifiedResult) # 1..Len(ClassifiedResult.items)
               /\ ClassifiedResult.invalid # "True")
                 => span.error = 1

\* C7 witness: the resolver of a nullable field raised: data present, one
\* wrapped error, nothing excluded, flagged as a server error
C7_Witness ==
    /\ SpanEnded
    /\ ClassifiedResult = Obj("list", <<WrappedValueError>>, "data", ABSENT)
    /\ ignore_exceptions = {}
    /\ span.error = 1
    /\ MetricOf(CLIENT_ERROR) = 0

\* the selected tracer is enabled / disabled, read off the inputs
SelectedEnabled ==
    Len(args) > 0 /\ (schemaTracer = "enabled" \/ (schemaTracer = ABSENT /\ globalEnabled))

SelectedDisabled ==
    Len(args) > 0 /\ (schemaTracer = "disabled" \/ (schemaTracer = ABSENT /\ ~globalEnabled))

\* C8 (as claimed): with the tracer enabled, an invocation on the
\* synchronous path (the function returned a value or raised) has opened and
\* closed exactly one span when it ends; one on the asynchronous path has
\* emitted exactly one span once the coroutine has settled.
C8_ExactlyOneSpan ==
    (pc = "done" /\ SelectedEnabled /\ funcCalls = 1)
        => (spansOpened = 1 /\ spansClosed = 1)

\* position of the first occurrence of event e, 0 when it did not happen
EventAt(e) ==
    IF \E i \in 1..Len(events) : events[i] = e
    THEN CHOOSE i \in 1..Len(events) :
            events[i] = e /\ \A j \in 1..(i - 1) : events[j] # e
    ELSE 0

\* C9: when the function returns a coroutine the wrapper hands back its own
\* coroutine with nothing awaited yet; once awaited the span is open for as
\* long as the inner coroutine is pending; if the inner one resolves, the
\* resolved value is classified before the span closes and the awaiter gets
\* that value; if it fails, the span ends with error 1, no metric, no error
\* tag and no callback, and the awaiter gets the failure.
C9_AsyncPath ==
    /\ (SelectedEnabled /\ funcOutcome.kind = "coroutine" /\ pc # "async_return")
          => outcome = Coroutine("outer")
    /\ (pc = "outer_created")
          => (inner = "pending" /\ spansOpened = 0 /\ awaited = Pending)
    /\ (spansOpened > 0 /\ inner = "pending") => (span.opened /\ ~span.closed)
    /\ (/\ pc = "done"
        /\ inner = "resolved"
        /\ (innerOutcome.value.kind = "None" \/ IsExecutionResult(innerOutcome.value)))
          => /\ awaited = Returned(innerOutcome.value)
             /\ EventAt("inner_settled") < EventAt("classified")
             /\ EventAt("classified") < EventAt("span_close")
             /\ span.closed
             /\ IF innerOutcome.value.kind = "None"
                THEN span.error = 1
                ELSE DOMAIN span.metrics = {CLIENT_ERROR, INVALID, DATA_EMPTY}
    /\ (pc = "done" /\ inner = "failed")
          => /\ awaited = Raised("FuncError")
             /\ span.closed
             /\ span.error = 1
             /\ DOMAIN span.metrics = {}
             /\ DOMAIN span.tags = {QUERY}
             /\ callbacks = <<>>
             /\ EventAt("classified") = 0

\* C9 witness: the awaited outer coroutine resolved to the result the inner
\* one produced, classified with its errors and handed to the callback
C9_Witness ==
    /\ pc = "done"
    /\ inner = "resolved"
    /\ IsExecutionResult(innerOutcome.value)
    /\ HasErrors(innerOutcome.value)
    /\ awaited = Returned(innerOutcome.value)
    /\ span.closed
    /\ ERRORS \in DOMAIN span.tags
    /\ Len(callbacks) = 1

\* C10: with the selected tracer disabled the wrapper calls the function
\* once with the args and kwargs it was given, extracts no query, opens no
\* span, invokes no callback, and hands back what the function returned or
\* raised.
C10_DisabledBypass ==
    (pc = "done" /\ SelectedDisabled)
        => /\ funcCalls = 1
           /\ funcArgs = <<args, kwargs>>
           /\ query = NoQuery
           /\ EventAt("query") = 0
           /\ spansOpened = 0
           /\ span = NoSpan
           /\ callbacks = <<>>
           /\ outcome = funcOutcome

\* C10 witness: the schema's own tracer is disabled while the global one is
\* enabled, a callback is given, and the function returned a result
C10_Witness ==
    /\ pc = "done"
    /\ schemaTracer = "disabled"
    /\ globalEnabled
    /\ span_callback # NONE
    /\ funcCalls = 1
    /\ outcome.kind = "return"
    /\ HasErrors(outcome.value)

\* ------------------------------------------------------------------ C11
\* the entry points of the installation are the functions they were at import
Unpatched == \A e \in EntryPoints : entry[e] = <<>>

\* C11: from an unpatched state, through patch, unpatch, patch, unpatch (with
\* an unwrap that does not fail), no call raises, after each patch every
\* entry point of the installation is a wrapper, and after each unpatch every
\* entry point is the function it was before the first patch.
C11_PatchUnpatchCycle ==
    (/\ ~faulted
     /\ history # <<>>
     /\ Len(history) <= 4
     /\ history = SubSeq(<<"patch", "unpatch", "patch", "unpatch">>, 1, Len(history)))
    => /\ lastCall.raised = NONE
       /\ lastCall.warnings = <<>>
       /\ lastCall.op = "patch" =>
              \A e \in Present(has_graphql_sync, HAS_BACKEND_CORE) : entry[e] # <<>>
       /\ lastCall.op = "unpatch" => Unpatched

C11_Witness ==
    /\ history = <<"patch", "unpatch", "patch", "unpatch">>
    /\ ~faulted
    /\ has_graphql_sync
    /\ Unpatched

\* ------------------------------------------------------------------ C12
\* the call supplies no query: fewer than two positional arguments and no
\* usable request_string or source keyword
NoQueryArgument ==
    /\ Len(args) < 2
    /\ \A k \in {"request_string", "source"} :
          k \in DOMAIN kwargs =>
              \/ kwargs[k].kind = "None"
              \/ kwargs[k].kind = "str" /\ kwargs[k].body = <<>>

\* C12: a traced call (schema given, tracer enabled) that supplies no query
\* fails with MissingQueryError, raised before the wrapped function is
\* invoked, and the wrapped function is never called.
C12_MissingQueryError ==
    (pc = "done" /\ NoQueryArgument /\ Len(args) = 1 /\ SelectedEnabled)
    => /\ outcome = Raised("MissingQueryError")
       /\ funcCalls = 0

\* ------------------------------------------------------------------ C13
\* C13: classification raises for no non-null result, whatever attributes
\* the result object has.  Stated here for a result object that has no
\* errors attribute: once _process_result has run on it, no exception is in
\* flight.
C13_ClassificationNeverRaises ==
    (/\ \E i \in DOMAIN events : events[i] = "classified"
     /\ ClassifiedResult.kind = "object"
     /\ ClassifiedResult.ek = ABSENT)
    => pendingExc = NONE

\* ------------------------------------------------------------------ C14
\* the part of t before its first '(' or '{', all of t when it has neither
PrefixOf(t) ==
    LET at == {i \in 1..Len(t) : t[i] \in {"(", "{"}}
    IN IF at = {} THEN t
       ELSE SubSeq(t, 1, (CHOOSE i \in at : \A j \in at : i <= j) - 1)

\* t without its leading and trailing whitespace
Trimmed(t) ==
    LET ink == {i \in 1..Len(t) : t[i] \notin Whitespace}
    IN IF ink = {} THEN <<>>
       ELSE SubSeq(t, CHOOSE i \in ink : \A j \in ink : i <= j,
                      CHOOSE i \in ink : \A j \in ink : j <= i)

\* C14: the resource name of a query is the text before its first '(' or
\* '{' with surrounding whitespace trimmed, and the whole query text when
\* that trimmed prefix is empty.
C14_ResourceName ==
    rpc = "returned" =>
        rres = IF Trimmed(PrefixOf(rq)) # <<>> THEN Trimmed(PrefixOf(rq)) ELSE rq

C14_Witness ==
    /\ rpc = "returned"
    /\ rq = <<"\n", "a", " ", "(">>
    /\ rres = <<"a">>

\* ------------------------------------------------------------------ C15
\* what the caller of the wrapper finally holds: the value returned, or the
\* value the outer coroutine resolved to
HandedBack == IF funcOutcome.kind = "coroutine" THEN awaited ELSE outcome

\* C15: with a span_callback configured, a traced call that yields a result
\* (None or an ExecutionResult) invokes the callback exactly once, after
\* classification and before the span is closed, with the very result that
\* is returned to the caller and with the call's span, fully classified and
\* still open.
C15_CallbackOnce ==
    /\ Len(callbacks) <= 1
    /\ callbacks # <<>> => ~callbacks[1].span.closed
    /\ (/\ span_callback # NONE
        /\ pc = "done"
        /\ SpanEnded
        /\ (ClassifiedResult.kind = "None" \/ IsExecutionResult(ClassifiedResult)))
       => /\ Len(callbacks) = 1
          /\ callbacks[1].result = ClassifiedResult
          /\ HandedBack = Returned(callbacks[1].result)
          /\ callbacks[1].span = [span EXCEPT !.closed = FALSE]
          /\ 0 < EventAt("classified")
          /\ EventAt("classified") < EventAt("callback")
          /\ EventAt("callback") < EventAt("span_close")

\* C15 witness: a finished call whose result has errors, handed to the
\* callback with the span that carries the error tags
C15_Witness ==
    /\ pc = "done"
    /\ span_callback # NONE
    /\ Len(callbacks) = 1
    /\ IsExecutionResult(callbacks[1].result)
    /\ HasErrors(callbacks[1].result)
    /\ ERRORS \in DOMAIN callbacks[1].span.tags
    /\ span.closed
    /\ outcome = Returned(callbacks[1].result)

\* ------------------------------------------------------------------ C16
\* the defaults of the span as the claim states them
DefaultField(k) ==
    CASE k = "name" -> <<"graphql.graphql">>
      [] k = "span_type" -> <<"graphql">>
      [] k = "service" -> IF service_env.set THEN service_env.value ELSE <<"graphql">>
      [] k = "resource" ->
            LET q == span.tags[QUERY].body
            IN IF Trimmed(PrefixOf(q)) # <<>> THEN Trimmed(PrefixOf(q)) ELSE q

\* C16: the span is opened with name 'graphql.graphql', type 'graphql', the
\* service from DDTRACE_GRAPHQL_SERVICE or else 'graphql', and the resource
\* name of the query; every key of span_kwargs replaces the default of that
\* key and of no other.
C16_SpanKwargsOverride ==
    span.opened =>
        /\ DOMAIN span.kwargs = SpanKeys
        /\ \A k \in SpanKeys :
              span.kwargs[k] = IF k \in DOMAIN span_kwargs THEN span_kwargs[k]
                               ELSE DefaultField(k)

\* C16 witness: service comes from the environment, the caller overrides the
\* resource alone
C16_Witness ==
    /\ span.opened
    /\ DOMAIN span_kwargs = {"resource"}
    /\ service_env.set
    /\ span.kwargs["resource"] = <<"t", "e", "s", "t">>
    /\ span.kwargs["service"] = <<"test.test">>
    /\ span.kwargs["name"] = <<"graphql.graphql">>

\* ------------------------------------------------------------------ C17
\* the query was passed under keyword k alone, as raw text or as a document
OnlyKeyword(k) ==
    /\ Len(args) < 2
    /\ DOMAIN kwargs = {k}
    /\ kwargs[k].kind \in {"str", "DocumentNode"}

\* C17: the 'query' tag of the span is the original source text of the query
\* supplied as second positional argument, as keyword request_string or as
\* keyword source, be it raw text or a document parsed from that text; a
\* second positional argument wins over the keywords.
C17_QueryTagIsSourceText ==
    span.opened =>
        /\ QUERY \in DOMAIN span.tags
        /\ Len(args) >= 2 => span.tags[QUERY] = TextQ(args[2].body)
        /\ \A k \in {"request_string", "source"} :
              OnlyKeyword(k) => span.tags[QUERY] = TextQ(kwargs[k].body)

\* C17 witness: a document as second positional argument next to a source
\* keyword with another text
C17_Witness ==
    /\ span.opened
    /\ Len(args) = 2
    /\ args[2] = DocQ(PositionalText)
    /\ "source" \in DOMAIN kwargs
    /\ kwargs["source"] = TextQ(SourceText)
    /\ span.tags[QUERY] = TextQ(PositionalText)

\* ------------------------------------------------------------------ C18
\* the entry points whose unwrap failed in the last call of unpatch()
Warned == {lastCall.warnings[i] : i \in DOMAIN lastCall.warnings}

\* C18: unpatch() never raises.  Called with nothing patched it leaves every
\* entry point the original function.  When the unwrap of an entry point
\* fails it logs a warning and goes on: every entry point of the
\* installation is attempted, the ones that failed are left as they were
\* and the wrapped ones that did not fail lose their wrapper.
C18_UnpatchBestEffort ==
    lastCall.op = "unpatch" =>
        /\ lastCall.raised = NONE
        /\ lastCall.attempts = PresentSeq(has_graphql_sync, HAS_BACKEND_CORE)
        /\ (\A e \in EntryPoints : lastCall.before[e] = <<>>) => Unpatched
        /\ \A e \in Warned : entry[e] = lastCall.before[e]
        /\ \A e \in Present(has_graphql_sync, HAS_BACKEND_CORE) \ Warned :
              lastCall.before[e] # <<>> =>
                  entry[e] = SubSeq(lastCall.before[e], 1, Len(lastCall.before[e]) - 1)

\* C18 witness: the unwrap of graphql.graphql failed and graphql_sync was
\* unwrapped all the same
C18_Witness ==
    /\ lastCall.op = "unpatch"
    /\ lastCall.warnings = <<"graphql">>
    /\ lastCall.attempts = <<"graphql", "graphql_sync">>
    /\ lastCall.before["graphql_sync"] # <<>>
    /\ entry["graphql_sync"] = <<>>
    /\ entry["graphql"] # <<>>

\* ------------------------------------------------------------------ C19
\* C19: on the synchronous path of a traced call the underlying function is
\* invoked after the query was extracted and the span was opened, never
\* before the span is opened.
C19_SyncOrder ==
    (SelectedEnabled /\ funcCalls > 0 /\ funcOutcome.kind \in {"return", "raise"})
    => /\ 0 < EventAt("query")
       /\ EventAt("query") < EventAt("span_open")
       /\ EventAt("span_open") < EventAt("func")

\* ------------------------------------------------------------------ C20
\* C20: when the outer coroutine is cancelled while it awaits the inner one,
\* the cancellation reaches the inner coroutine, nothing is classified and
\* no callback runs, the span is not left open (while it is open the
\* coroutine still has a step to take), and once the coroutine has ended the
\* span is closed with error = 1 and the awaiter gets the CancelledError.
C20_Cancellation ==
    EventAt("cancel") > 0 =>
        /\ inner = "cancelled"
        /\ innerOutcome = Raised("CancelledError")
        /\ actual_result = Pending
        /\ EventAt("classified") = 0
        /\ callbacks = <<>>
        /\ DOMAIN span.metrics = {}
        /\ span.opened
        /\ ~span.closed => ENABLED (FinallyAsync \/ CloseSpanAsync)
        /\ pc = "done" =>
              /\ span.closed
              /\ span.error = 1
              /\ spansOpened = 1 /\ spansClosed = 1
              /\ awaited = Raised("CancelledError")

C20_Witness ==
    /\ pc = "done"
    /\ inner = "cancelled"
    /\ EventAt("cancel") > 0
    /\ span.closed
    /\ span.error = 1
    /\ awaited = Raised("CancelledError")

\* ------------------------------------------------------------------ C21
\* the wrapper depth after the calls of h, from depth 0: d + 1 on patch and
\* max(0, d - 1) on unpatch
RECURSIVE DepthAfter(_)
DepthAfter(h) ==
    IF h = <<>> THEN 0
    ELSE LET d == DepthAfter(SubSeq(h, 1, Len(h) - 1))
         IN IF h[Len(h)] = "patch" THEN d + 1
            ELSE IF d > 0 THEN d - 1 ELSE 0

\* s is t with its outermost layers removed, or t itself
InnerLayersOf(s, t) == Len(s) <= Len(t) /\ s = SubSeq(t, 1, Len(s))

\* C21: patch() never looks for an existing wrap.  Over any sequence of
\* patch() and unpatch() calls (with an unwrap that does not fail on a wrapped
\* attribute) the wrapper depth of every entry point of the installation is
\* d + 1 after a patch and max(0, d - 1) after an unpatch; a patch adds one
\* layer on top of the layers there were and an unpatch takes away at most
\* the outermost one, so the original function stays innermost; an entry
\* point that is not part of the installation is never wrapped; and a call of
\* an entry point of depth d calls the original once and runs the tracing
\* wrapper d times, with one finished span per layer when the original
\* returns a result, and none of either at depth 0.
C21_WrapperDepth ==
    /\ \A e \in EntryPoints :
          /\ e \notin Present(has_graphql_sync, HAS_BACKEND_CORE) => entry[e] = <<>>
          /\ (e \in Present(has_graphql_sync, HAS_BACKEND_CORE) /\ ~faulted)
                => Len(entry[e]) = DepthAfter(history)
          /\ (e \in Present(has_graphql_sync, HAS_BACKEND_CORE) /\ lastCall.op = "patch")
                => /\ Len(entry[e]) = Len(lastCall.before[e]) + 1
                   /\ InnerLayersOf(lastCall.before[e], entry[e])
          /\ lastCall.op = "unpatch"
                => /\ InnerLayersOf(entry[e], lastCall.before[e])
                   /\ Len(entry[e]) >= Len(lastCall.before[e]) - 1
    /\ entryCall.entry # "none" =>
          /\ entryCall.original = 1
          /\ entryCall.wrappers = entryCall.depth
          /\ entryCall.depth = Len(entry[entryCall.entry])
          /\ Len(entryCall.spans) <= entryCall.depth
          /\ \A i \in DOMAIN entryCall.spans : entryCall.spans[i].closed
          /\ \A res \in EntryResults :
                (res.kind = "return" /\ entryCall.outcome = res)
                    => Len(entryCall.spans) = entryCall.depth

\* C21 witness: after patch, patch, unpatch the entry point is still wrapped
\* once, and a call of it that returns a result is traced once
C21_Witness ==
    /\ entryCall.entry = "graphql"
    /\ history = <<"patch", "patch", "unpatch">>
    /\ ~faulted
    /\ entryCall.depth = 1
    /\ entryCall.wrappers = 1
    /\ Len(entryCall.spans) = 1
    /\ entryCall.outcome.kind = "return"
    /\ entry["graphql"] # <<>>

====
